---- MODULE Spec2Model ----
(***************************************************************************)
(* Model of the PCOS analyzer front end:                                   *)
(*   src/src/pages/Results.tsx          risk classification and report     *)
(*   src/src/components/SampleImages.tsx sample picker (fetch and decode)  *)
(*   src/src/components/CameraCapture.tsx camera modal (getUserMedia)      *)
(*                                                                         *)
(* A JavaScript string is a sequence of one-character strings; undefined   *)
(* and null are the one-element sequences Undefined and Null, whose        *)
(* element is no character.                                                *)
(***************************************************************************)
EXTENDS Naturals, Sequences, FiniteSets

VARIABLES
    call,        \* the classifier applied: [fn, a, b], fn = "idle" before the call
    ret,         \* what the called classifier returned
    results,     \* ResultsPage: location.state.results (a payload or NoResults)
    page,        \* ResultsPage: what the last render produced
    isLoading,   \* SampleImages: useState<string | null>
    loads,       \* SampleImages: the choose() invocations, in call order
    delivered,   \* SampleImages: the onSelectSample calls, in call order
    toasts,      \* SampleImages: the toast.success / toast.error calls, in order
    open,        \* CameraCapture: prop open, as the parent last set it
    mounted,     \* CameraCapture: the component is mounted
    facing,      \* CameraCapture: useState facing
    error,       \* CameraCapture: useState error (a message or NoError)
    starting,    \* CameraCapture: useState starting
    streamRef,   \* CameraCapture: streamRef.current (a stream id or NoStream)
    requests,    \* CameraCapture: the startStream calls, in call order
    liveTracks,  \* CameraCapture: the acquired streams whose tracks are live
    srcObject,   \* CameraCapture: videoRef.current.srcObject
    effectDue,   \* CameraCapture: a render changed the effect's dependencies
    capture,     \* CameraCapture: doCapture's position
    captured     \* CameraCapture: the onCapture calls made so far

classifierVars == <<call, ret>>
resultsVars == <<results, page>>
sampleVars == <<isLoading, loads, delivered, toasts>>
cameraVars ==
    <<open, mounted, facing, error, starting, streamRef, requests, liveTracks,
      srcObject, effectDue, capture, captured>>

vars == <<classifierVars, resultsVars, sampleVars, cameraVars>>

----------------------------------------------------------------------------
(* JavaScript values and string primitives *)

Undefined == <<"<undefined>">>
Null == <<"<null>">>

\* !x for x: string | null | undefined
IsFalsy(x) == x = Undefined \/ x = Null \/ x = <<>>

UpperLetters ==
    <<"A","B","C","D","E","F","G","H","I","J","K","L","M",
      "N","O","P","Q","R","S","T","U","V","W","X","Y","Z">>

LowerLetters ==
    <<"a","b","c","d","e","f","g","h","i","j","k","l","m",
      "n","o","p","q","r","s","t","u","v","w","x","y","z">>

Digits == {"0","1","2","3","4","5","6","7","8","9"}

Range(f) == {f[i] : i \in DOMAIN f}

\* String.prototype.toLowerCase on one character
LowerChar(c) ==
    IF c \in Range(UpperLetters)
    THEN LowerLetters[CHOOSE i \in DOMAIN UpperLetters : UpperLetters[i] = c]
    ELSE c

\* String.prototype.toLowerCase
toLowerCase(s) == [i \in DOMAIN s |-> LowerChar(s[i])]

\* WhiteSpace and LineTerminator code points String.prototype.trim strips
IsSpace(c) == c \in {" ", "\t", "\n", "\r"}

RECURSIVE trimStart(_)
trimStart(s) ==
    IF s # <<>> /\ IsSpace(Head(s)) THEN trimStart(Tail(s)) ELSE s

RECURSIVE trimEnd(_)
trimEnd(s) ==
    IF s # <<>> /\ IsSpace(s[Len(s)])
    THEN trimEnd(SubSeq(s, 1, Len(s) - 1))
    ELSE s

\* String.prototype.trim
trim(s) == trimEnd(trimStart(s))

\* String.prototype.includes: scan the start positions left to right
RECURSIVE includesFrom(_, _, _)
includesFrom(s, w, i) ==
    IF i + Len(w) - 1 > Len(s) THEN FALSE
    ELSE IF SubSeq(s, i, i + Len(w) - 1) = w THEN TRUE
    ELSE includesFrom(s, w, i + 1)

includes(s, w) == includesFrom(s, w, 1)

----------------------------------------------------------------------------
(* RegExp as hasWord uses it *)

\* the characters of the class /[.*+?^${}()|[\]\\]/
RegexMeta == {".", "*", "+", "?", "^", "$", "{", "}", "(", ")", "|", "[", "]", "\\"}

\* word.replace(/[.*+?^${}()|[\]\\]/g, '\\$&')
RECURSIVE escapeRegExp(_)
escapeRegExp(w) ==
    IF w = <<>> THEN <<>>
    ELSE (IF Head(w) \in RegexMeta THEN <<"\\", Head(w)>> ELSE <<Head(w)>>)
         \o escapeRegExp(Tail(w))

\* `\\b${...}\\b`
wordPattern(escaped) == <<"\\", "b">> \o escaped \o <<"\\", "b">>

\* new RegExp(source): the source as a sequence of atoms.  Atoms read here:
\* \b (word boundary), \c for a syntax character c (that character), "."
\* (any character but a line terminator), a plain character (itself).  Any
\* other unescaped syntax character, or a trailing backslash, is reported
\* as the atom "error" (the constructor throws or the operator is not one
\* this model interprets); escapeRegExp's output never holds one.
RECURSIVE parseRegExp(_)
parseRegExp(src) ==
    IF src = <<>> THEN <<>>
    ELSE IF Head(src) = "\\"
    THEN IF Len(src) = 1 THEN <<[kind |-> "error", ch |-> "\\"]>>
         ELSE (IF src[2] = "b" THEN <<[kind |-> "boundary", ch |-> "b"]>>
               ELSE IF src[2] \in RegexMeta THEN <<[kind |-> "char", ch |-> src[2]]>>
               ELSE <<[kind |-> "error", ch |-> src[2]]>>)
              \o parseRegExp(Tail(Tail(src)))
    ELSE (IF Head(src) = "." THEN <<[kind |-> "any", ch |-> "."]>>
          ELSE IF Head(src) \in RegexMeta THEN <<[kind |-> "error", ch |-> Head(src)]>>
          ELSE <<[kind |-> "char", ch |-> Head(src)]>>)
         \o parseRegExp(Tail(src))

\* \w without the u flag
IsWordChar(c) ==
    c \in Range(UpperLetters) \/ c \in Range(LowerLetters) \/ c \in Digits \/ c = "_"

\* \b between s[pos-1] and s[pos]
IsWordBoundary(s, pos) ==
    LET before == pos > 1 /\ pos - 1 <= Len(s) /\ IsWordChar(s[pos - 1])
        after == pos >= 1 /\ pos <= Len(s) /\ IsWordChar(s[pos])
    IN before # after

\* the atoms from k on match s starting at pos (flag i: characters compare
\* after case folding)
RECURSIVE matchAt(_, _, _, _)
matchAt(atoms, k, s, pos) ==
    IF k > Len(atoms) THEN TRUE
    ELSE IF atoms[k].kind = "boundary"
    THEN IsWordBoundary(s, pos) /\ matchAt(atoms, k + 1, s, pos)
    ELSE IF atoms[k].kind = "any"
    THEN pos <= Len(s) /\ s[pos] \notin {"\n", "\r"} /\ matchAt(atoms, k + 1, s, pos + 1)
    ELSE pos <= Len(s) /\ LowerChar(s[pos]) = LowerChar(atoms[k].ch)
         /\ matchAt(atoms, k + 1, s, pos + 1)

\* RegExp.prototype.test: a match at some start position
regExpTest(atoms, s) == \E pos \in 1..(Len(s) + 1) : matchAt(atoms, 1, s, pos)

----------------------------------------------------------------------------
(* src/src/pages/Results.tsx: the classifiers *)

S_low == <<"l","o","w">>
S_moderate == <<"m","o","d","e","r","a","t","e">>
S_high == <<"h","i","g","h">>
S_unknown == <<"u","n","k","n","o","w","n">>
S_low_risk == <<"l","o","w"," ","r","i","s","k">>
S_no_pcos == <<"n","o"," ","p","c","o","s">>
S_non_dash_pcos == <<"n","o","n","-","p","c","o","s">>
S_negative == <<"n","e","g","a","t","i","v","e">>
S_no_symptoms == <<"n","o"," ","s","y","m","p","t","o","m","s">>
S_high_risk == <<"h","i","g","h"," ","r","i","s","k">>
S_positive == <<"p","o","s","i","t","i","v","e">>
S_pcos_detected == <<"p","c","o","s"," ","d","e","t","e","c","t","e","d">>
S_likely_pcos == <<"l","i","k","e","l","y"," ","p","c","o","s">>
S_possible == <<"p","o","s","s","i","b","l","e">>
S_may_suggest == <<"m","a","y"," ","s","u","g","g","e","s","t">>
S_non_pcos == <<"n","o","n","_","p","c","o","s">>
S_unhealthy == <<"u","n","h","e","a","l","t","h","y">>
S_pcos == <<"p","c","o","s">>
S_pcos_positive == <<"p","c","o","s","_","p","o","s","i","t","i","v","e">>
S_normal == <<"n","o","r","m","a","l">>
S_healthy == <<"h","e","a","l","t","h","y">>

\* type RiskLevel = 'low' | 'moderate' | 'high' | 'unknown'
RiskLevel == {S_low, S_moderate, S_high, S_unknown}

\* hasWord throws when the RegExp constructor does
hasWordThrows(haystack, word) ==
    LET re == parseRegExp(wordPattern(escapeRegExp(word)))
    IN \E k \in DOMAIN re : re[k].kind = "error"

\* a plain substring test in place of the \b...\b expression
hasWord_substring(haystack, word) ==
    includes(toLowerCase(haystack), toLowerCase(word))

\* function hasWord(haystack, word)
hasWord(haystack, word) ==
    LET re == parseRegExp(wordPattern(escapeRegExp(word)))
    IN regExpTest(re, haystack)

\* the input is lowercased but not trimmed
normalizeRisk_noTrim(r) ==
    LET s == toLowerCase(IF IsFalsy(r) THEN <<>> ELSE r)
    IN IF s = S_low \/ s = S_moderate \/ s = S_high THEN s ELSE S_unknown

\* function normalizeRisk(r?: string | null): RiskLevel
normalizeRisk(r) ==
    LET s == toLowerCase(trim(IF IsFalsy(r) THEN <<>> ELSE r))
    IN IF s = S_low \/ s = S_moderate \/ s = S_high THEN s ELSE S_unknown

\* const low / high / mid of riskFromCombined
lowPhrases == <<S_low_risk, S_no_pcos, S_non_dash_pcos, S_negative, S_no_symptoms>>
highPhrases == <<S_high_risk, S_positive, S_pcos_detected, S_likely_pcos>>
midPhrases == <<S_moderate, S_possible, S_may_suggest>>

\* the high-risk phrases are tested before the low-risk ones
riskFromCombined_highFirst(combined) ==
    IF IsFalsy(combined) THEN S_unknown
    ELSE LET lower == toLowerCase(combined)
         IN IF \E i \in DOMAIN highPhrases : includes(lower, highPhrases[i]) THEN S_high
            ELSE IF \E i \in DOMAIN lowPhrases : includes(lower, lowPhrases[i]) THEN S_low
            ELSE IF \E i \in DOMAIN midPhrases : includes(lower, midPhrases[i]) THEN S_moderate
            ELSE S_unknown

\* function riskFromCombined(combined?: string): RiskLevel
riskFromCombined(combined) ==
    IF IsFalsy(combined) THEN S_unknown
    ELSE LET lower == toLowerCase(combined)
         IN IF \E i \in DOMAIN lowPhrases : includes(lower, lowPhrases[i]) THEN S_low
            ELSE IF \E i \in DOMAIN highPhrases : includes(lower, highPhrases[i]) THEN S_high
            ELSE IF \E i \in DOMAIN midPhrases : includes(lower, midPhrases[i]) THEN S_moderate
            ELSE S_unknown

SummaryNormal == [status |-> "normal", text |-> "Normal"]
SummaryReview == [status |-> "review", text |-> "Review Needed"]
SummaryNoData == [status |-> "review", text |-> "No data"]

\* const normalWords of summarizeSingle
normalWords ==
    <<S_normal, S_healthy, S_no_symptoms, S_negative, S_non_dash_pcos, S_no_pcos>>

\* lines 51-63: the label decides
summarizeLabel(prediction) ==
    IF IsFalsy(prediction) THEN SummaryNoData
    ELSE LET p == trim(toLowerCase(prediction))
         IN IF p = S_non_pcos \/ p = S_non_dash_pcos THEN SummaryNormal
            ELSE IF p = S_unhealthy \/ p = S_pcos \/ p = S_positive \/ p = S_pcos_positive
            THEN SummaryReview
            ELSE IF \E i \in DOMAIN normalWords : hasWord(p, normalWords[i])
            THEN SummaryNormal
            ELSE SummaryReview

\* the explicit risk is consulted only when the label decides nothing
summarizeSingle_labelFirst(prediction, explicitRisk) ==
    IF ~IsFalsy(prediction) THEN summarizeLabel(prediction)
    ELSE IF ~IsFalsy(explicitRisk) /\ explicitRisk # S_unknown
    THEN (IF explicitRisk = S_low THEN SummaryNormal ELSE SummaryReview)
    ELSE SummaryNoData

\* summarizeSingle throws when a hasWord call it reaches does
summarizeSingleThrows(prediction, explicitRisk) ==
    /\ IsFalsy(explicitRisk) \/ explicitRisk = S_unknown
    /\ ~IsFalsy(prediction)
    /\ LET p == trim(toLowerCase(prediction))
       IN /\ p \notin {S_non_pcos, S_non_dash_pcos, S_unhealthy, S_pcos, S_positive, S_pcos_positive}
          /\ \E i \in DOMAIN normalWords :
                /\ hasWordThrows(p, normalWords[i])
                /\ \A j \in 1..(i - 1) : ~hasWord(p, normalWords[j])

\* function summarizeSingle(prediction?: string, explicitRisk?: RiskLevel)
summarizeSingle(prediction, explicitRisk) ==
    IF ~IsFalsy(explicitRisk) /\ explicitRisk # S_unknown
    THEN (IF explicitRisk = S_low THEN SummaryNormal ELSE SummaryReview)
    ELSE summarizeLabel(prediction)

----------------------------------------------------------------------------
(* Inputs of the classifiers *)

G_space == <<" ">>
G_tab == <<"\t">>
G_underscore == <<"_">>
G_un == <<"u","n">>
G_x == <<"x">>
G_positive_not == <<"P","o","s","i","t","i","v","e",","," ","n","o","t"," ">>
L_Healthy == <<"H","e","a","l","t","h","y">>
L_NON_PCOS == <<"N","O","N","_","P","C","O","S">>
L_unclear == <<"u","n","c","l","e","a","r">>
L_unhealthy_no_symptoms == <<"U","n","h","e","a","l","t","h","y",";"," ","n","o"," ","s","y","m","p","t","o","m","s">>
R_Low == <<"L","o","w">>
R_MODERATE == <<"M","O","D","E","R","A","T","E">>
R_severe == <<"s","e","v","e","r","e">>
T_Low_risk == <<"L","o","w"," ","r","i","s","k">>
T_High_risk == <<"H","i","g","h"," ","r","i","s","k">>
T_no == <<"n","o"," ">>
T_PCOS_detected == <<"P","C","O","S"," ","d","e","t","e","c","t","e","d">>
T_Moderate == <<"M","o","d","e","r","a","t","e">>
T_may_suggest == <<"m","a","y"," ","s","u","g","g","e","s","t"," ">>
T_comma == <<","," ">>
T_likely == <<"l","i","k","e","l","y"," ">>
W_paren_b == <<"(","b",")">>
W_c_plus_plus == <<"c","+","+">>
W_dot == <<".">>
W_a_dot_b == <<"a",".","b">>
W_axb == <<"a","x","b">>
W_Normal == <<"N","o","r","m","a","l">>

\* tokens put before and after a text, at most MaxGlue on each side
MaxGlue == 1

\* phrases concatenated into one combined sentence
MaxPhrases == 3

\* the concatenations of at most n members of T
RECURSIVE Concats(_, _)
Concats(T, n) ==
    IF n = 0 THEN {<<>>}
    ELSE LET S == Concats(T, n - 1) IN S \cup {s \o t : s \in S, t \in T}

Wrapped(Glue, Cores) ==
    LET G == Concats(Glue, MaxGlue)
    IN {pre \o core \o suf : pre \in G, core \in Cores, suf \in G}

RiskInputs ==
    Wrapped({G_space, G_tab, G_x},
            {<<>>, S_low, R_Low, S_moderate, R_MODERATE, S_high, S_unknown, R_severe})
    \cup {Undefined, Null}

Sentences ==
    Concats({T_Low_risk, T_High_risk, T_no, T_PCOS_detected, T_Moderate,
             T_may_suggest, T_comma, S_negative, T_likely}, MaxPhrases)
    \cup {Undefined}

Labels ==
    Wrapped({G_space, G_underscore, G_un, G_positive_not},
            {<<>>, S_normal, L_Healthy, S_no_symptoms, S_negative, S_non_dash_pcos,
             S_no_pcos, L_NON_PCOS, S_unhealthy, S_pcos, S_positive, S_pcos_positive,
             L_unclear, L_unhealthy_no_symptoms})
    \cup {Undefined}

ExplicitRisks == RiskLevel \cup {Undefined}

Haystacks ==
    Wrapped({G_space, G_underscore, G_un, G_x},
            {<<>>, S_healthy, L_Healthy, W_Normal, S_no_symptoms, S_non_dash_pcos,
             W_paren_b, W_c_plus_plus, W_a_dot_b, W_axb})

Words ==
    Range(normalWords) \cup {L_Healthy, W_paren_b, W_c_plus_plus, W_dot, W_a_dot_b}

----------------------------------------------------------------------------
(* The classifiers applied to one input each *)

NoReturn == [threw |-> FALSE, val |-> Undefined]
Returned(v) == [threw |-> FALSE, val |-> v]
Threw == [threw |-> TRUE, val |-> Undefined]

NoCall == [fn |-> "idle", a |-> Undefined, b |-> Undefined]

ClassifierIdle == call = NoCall /\ ret = NoReturn

ClassifierInputs(A, B) ==
    /\ call \in [fn : {"idle"}, a : A, b : B]
    /\ ret = NoReturn

CallNormalizeRisk ==
    /\ call.fn = "idle"
    /\ call' = [call EXCEPT !.fn = "normalizeRisk"]
    /\ ret' = Returned(normalizeRisk(call.a))
    /\ UNCHANGED <<resultsVars, sampleVars, cameraVars>>

\* the result handed back as the next input
CallNormalizeRiskAgain ==
    /\ call.fn = "normalizeRisk"
    /\ call' = [fn |-> "normalizeRisk2", a |-> call.a, b |-> ret.val]
    /\ ret' = Returned(normalizeRisk(ret.val))
    /\ UNCHANGED <<resultsVars, sampleVars, cameraVars>>

CallRiskFromCombined ==
    /\ call.fn = "idle"
    /\ call' = [call EXCEPT !.fn = "riskFromCombined"]
    /\ ret' = Returned(riskFromCombined(call.a))
    /\ UNCHANGED <<resultsVars, sampleVars, cameraVars>>

CallSummarizeSingle ==
    /\ call.fn = "idle"
    /\ call' = [call EXCEPT !.fn = "summarizeSingle"]
    /\ ret' = IF summarizeSingleThrows(call.a, call.b) THEN Threw
              ELSE Returned(summarizeSingle(call.a, call.b))
    /\ UNCHANGED <<resultsVars, sampleVars, cameraVars>>

CallHasWord ==
    /\ call.fn = "idle"
    /\ call' = [call EXCEPT !.fn = "hasWord"]
    /\ ret' = IF hasWordThrows(call.a, call.b) THEN Threw
              ELSE Returned(hasWord(call.a, call.b))
    /\ UNCHANGED <<resultsVars, sampleVars, cameraVars>>

----------------------------------------------------------------------------
(* src/src/pages/Results.tsx: ResultsPage *)

NoResults == [absent |-> TRUE]

P_high_padded == <<" ","H","i","g","h"," ">>
P_no_pcos_detected == <<"N","o"," ","P","C","O","S"," ","d","e","t","e","c","t","e","d">>
P_high_and_low == <<"H","i","g","h"," ","r","i","s","k",","," ","n","o","t"," ","l","o","w"," ","r","i","s","k">>
P_normal_study == <<"N","o","r","m","a","l"," ","s","t","u","d","y">>
P_cysts == <<"M","u","l","t","i","p","l","e"," ","c","y","s","t","s">>

\* the payloads the prediction service may answer with; every field is optional
Payloads ==
    [overall_risk : {Undefined, <<>>, S_low, R_MODERATE, P_high_padded, S_unknown, R_severe},
     combined : {Undefined, <<>>, T_Low_risk, T_High_risk, T_Moderate,
                 P_no_pcos_detected, P_high_and_low, L_unclear},
     face_pred : {Undefined, <<>>, S_non_pcos, S_unhealthy, L_unclear},
     face_risk : {Undefined, S_low, R_MODERATE, S_high, S_unknown},
     xray_pred : {Undefined, <<>>, P_normal_study, G_positive_not \o S_normal},
     xray_risk : {Undefined, S_low, P_high_padded}]

\* the combined sentence is consulted before the explicit field
overallRisk_combinedFirst(r) ==
    IF riskFromCombined(r.combined) # S_unknown
    THEN riskFromCombined(r.combined)
    ELSE normalizeRisk(r.overall_risk)

\* const overallRisk (lines 112-115)
overallRisk(r) ==
    IF normalizeRisk(r.overall_risk) # S_unknown
    THEN normalizeRisk(r.overall_risk)
    ELSE riskFromCombined(r.combined)

\* const faceRiskExplicit, xrayRiskExplicit (lines 117-118)
faceRiskExplicit(r) == normalizeRisk(r.face_risk)
xrayRiskExplicit(r) == normalizeRisk(r.xray_risk)

\* const faceSummary, xraySummary (lines 120-121)
faceSummary(r) == summarizeSingle(r.face_pred, faceRiskExplicit(r))
xraySummary(r) == summarizeSingle(r.xray_pred, xrayRiskExplicit(r))

\* the chip and the card are rendered without the guard
showModality_always(pred) == TRUE

\* {results.face_pred && (...)}, {results.xray_pred && (...)}
showModality(pred) == ~IsFalsy(pred)

\* a summary that asks for review is shown as high
cardRiskLevel_reviewHigh(summary) == IF summary.status = "normal" THEN S_low ELSE S_high

\* riskLevel={summary.status === 'normal' ? 'low' : 'moderate'}
cardRiskLevel(summary) == IF summary.status = "normal" THEN S_low ELSE S_moderate

\* what ResultsPage returns: the no-results card, or the report with its
\* badge, gauge, summary chips and result cards
ResultsPage(r) ==
    IF r = NoResults THEN [kind |-> "no-results"]
    ELSE LET risk == overallRisk(r)
             pred == [face |-> r.face_pred, xray |-> r.xray_pred]
             summary == [face |-> faceSummary(r), xray |-> xraySummary(r)]
             shown == {m \in {"face", "xray"} : showModality(pred[m])}
         IN [kind |-> "report",
             overallRisk |-> risk,
             badge |-> IF risk = S_unknown THEN "Pending Analysis" ELSE "Risk",
             gauge |-> risk,
             chips |-> [m \in shown |-> summary[m]],
             cards |-> [m \in shown |->
                          [prediction |-> pred[m],
                           riskLevel |-> cardRiskLevel(summary[m])]]]

UploadPage == [kind |-> "upload"]

ResultsIdle == results = NoResults /\ page = UploadPage

\* the router shows /results with the state the upload page passed
OpenResults ==
    /\ page = UploadPage
    /\ \E r \in Payloads \cup {NoResults} :
          /\ results' = r
          /\ page' = ResultsPage(r)
    /\ UNCHANGED <<classifierVars, sampleVars, cameraVars>>

\* navigate('/') of "Return to Upload", "Back to Upload", "Analyze Another Image"
NavigateHome ==
    /\ page # UploadPage
    /\ results' = NoResults
    /\ page' = UploadPage
    /\ UNCHANGED <<classifierVars, sampleVars, cameraVars>>

----------------------------------------------------------------------------
(* src/src/components/SampleImages.tsx *)

\* const sampleImages: the ids and the list each is in
sampleImages ==
    [face |-> {"face-sample-1", "face-sample-2"},
     xray |-> {"xray-sample-1", "xray-sample-2"}]

SampleTypes == {"face", "xray"}

NotLoading == "null"

\* choose() calls made over one run of the picker
MaxChoose == 3

SampleIdle ==
    /\ isLoading = NotLoading
    /\ loads = <<>>
    /\ delivered = <<>>
    /\ toasts = <<>>

Pending(l) == l.step \in {"fetch", "blob", "decode"}

PendingLoads == {i \in DOMAIN loads : Pending(loads[i])}

\* choose(type, sample) up to its first await: setIsLoading(sample.id), the
\* proxied url, fetch(url) issued
choose(type, id) ==
    /\ Len(loads) < MaxChoose
    /\ isLoading' = id
    /\ loads' = Append(loads, [type |-> type, sample |-> id, url |-> "/img-proxy", step |-> "fetch"])
    /\ UNCHANGED <<delivered, toasts>>

\* <Button onClick={() => choose(type, sample)} disabled={isLoading === sample.id}>
loadEnabled(id) == isLoading # id

\* <button type="button" onClick={() => choose(type, sample)}>: never disabled
rowEnabled(id) == TRUE

ClickRow ==
    /\ \E type \in SampleTypes : \E id \in sampleImages[type] :
          rowEnabled(id) /\ choose(type, id)
    /\ UNCHANGED <<classifierVars, resultsVars, cameraVars>>

ClickLoad ==
    /\ \E type \in SampleTypes : \E id \in sampleImages[type] :
          loadEnabled(id) /\ choose(type, id)
    /\ UNCHANGED <<classifierVars, resultsVars, cameraVars>>

\* the catch without the finally: the loading flag is left set
chooseFails_keepsLoading(i) ==
    /\ loads' = [loads EXCEPT ![i].step = "failed"]
    /\ toasts' = Append(toasts, [kind |-> "error", load |-> i])
    /\ UNCHANGED <<isLoading, delivered>>

\* catch (e) { toast.error(...) } finally { setIsLoading(null) }
chooseFails(i) ==
    /\ loads' = [loads EXCEPT ![i].step = "failed"]
    /\ toasts' = Append(toasts, [kind |-> "error", load |-> i])
    /\ isLoading' = NotLoading
    /\ UNCHANGED delivered

\* await fetch(url) settles: res.ok, or !res.ok (throw), or a rejection
FetchSettles ==
    /\ \E i \in DOMAIN loads :
          /\ loads[i].step = "fetch"
          /\ \E outcome \in {"ok", "http-error", "network-error"} :
                IF outcome = "ok"
                THEN /\ loads' = [loads EXCEPT ![i].step = "blob"]
                     /\ UNCHANGED <<isLoading, delivered, toasts>>
                ELSE chooseFails(i)
    /\ UNCHANGED <<classifierVars, resultsVars, cameraVars>>

\* await res.blob() settles; new File(...); fixImageOrientation(file) issued
BlobSettles ==
    /\ \E i \in DOMAIN loads :
          /\ loads[i].step = "blob"
          /\ \E outcome \in {"ok", "read-error"} :
                IF outcome = "ok"
                THEN /\ loads' = [loads EXCEPT ![i].step = "decode"]
                     /\ UNCHANGED <<isLoading, delivered, toasts>>
                ELSE chooseFails(i)
    /\ UNCHANGED <<classifierVars, resultsVars, cameraVars>>

\* await fixImageOrientation(file) settles; onSelectSample, toast.success,
\* finally setIsLoading(null)
DecodeSettles ==
    /\ \E i \in DOMAIN loads :
          /\ loads[i].step = "decode"
          /\ \E outcome \in {"ok", "decode-error"} :
                IF outcome = "ok"
                THEN /\ loads' = [loads EXCEPT ![i].step = "loaded"]
                     /\ delivered' = Append(delivered, [type |-> loads[i].type, sample |-> loads[i].sample, load |-> i])
                     /\ toasts' = Append(toasts, [kind |-> "success", load |-> i])
                     /\ isLoading' = NotLoading
                ELSE chooseFails(i)
    /\ UNCHANGED <<classifierVars, resultsVars, cameraVars>>

----------------------------------------------------------------------------
(* src/src/components/CameraCapture.tsx *)

NoError == "null"
PermissionDenied == "Camera permission denied. Please allow access to your camera."
Unavailable == "Unable to access the camera on this device."

NoStream == 0

\* startStream calls made over one run of the modal
MaxStarts == 3

\* doCapture calls encoding or delivered at one time
MaxCaptures == 1

CameraIdle ==
    /\ open = FALSE
    /\ mounted = TRUE
    /\ facing = "environment"
    /\ error = NoError
    /\ starting = FALSE
    /\ streamRef = NoStream
    /\ requests = <<>>
    /\ liveTracks = {}
    /\ srcObject = NoStream
    /\ effectDue = FALSE
    /\ capture = <<>>
    /\ captured = <<>>

PendingStarts == {i \in DOMAIN requests : requests[i].state = "pending"}

\* the <video> and <canvas> elements exist while the modal is rendered
videoPresent == mounted /\ open

\* a state setter called after the unmount changes nothing
setState(old, new) == IF mounted THEN new ELSE old

\* e?.name === 'NotAllowedError' ? 'Camera permission denied...' : 'Unable to access...'
startErrorMessage(name) == IF name = "NotAllowedError" THEN PermissionDenied ELSE Unavailable

\* stopStream: the tracks left live, streamRef.current becomes null
stopStream_liveTracks == IF streamRef = NoStream THEN liveTracks ELSE liveTracks \ {streamRef}

\* startStream(mode) up to its await: setError(null), setStarting(true),
\* getUserMedia(constraints) issued
startStream(mode) ==
    /\ error' = NoError
    /\ starting' = TRUE
    /\ requests' = Append(requests, [mode |-> mode, state |-> "pending", name |-> "none"])

\* the parent renders the modal with open = true
OpenModal ==
    /\ mounted /\ ~open /\ ~effectDue
    /\ Len(requests) < MaxStarts
    /\ open' = TRUE
    /\ effectDue' = TRUE
    /\ UNCHANGED <<mounted, facing, error, starting, streamRef, requests, liveTracks,
                   srcObject, capture, captured>>
    /\ UNCHANGED <<classifierVars, resultsVars, sampleVars>>

\* Cancel and Close: onOpenChange(false), the parent renders open = false and
\* the <video> element goes
CloseModal ==
    /\ mounted /\ open /\ ~effectDue
    /\ open' = FALSE
    /\ effectDue' = TRUE
    /\ srcObject' = NoStream
    /\ UNCHANGED <<mounted, facing, error, starting, streamRef, requests, liveTracks,
                   capture, captured>>
    /\ UNCHANGED <<classifierVars, resultsVars, sampleVars>>

\* useEffect on [open, startStream, stopStream, facing]: the previous run's
\* cleanup (stopStream), then startStream(facing) if open, else stopStream
OpenCloseEffect ==
    /\ mounted /\ effectDue
    /\ effectDue' = FALSE
    /\ liveTracks' = stopStream_liveTracks
    /\ streamRef' = NoStream
    /\ IF open
       THEN startStream(facing)
       ELSE UNCHANGED <<error, starting, requests>>
    /\ UNCHANGED <<open, mounted, facing, srcObject, capture, captured>>
    /\ UNCHANGED <<classifierVars, resultsVars, sampleVars>>

\* toggleFacing: setFacing(next); stopStream(); startStream(next); the render
\* that follows changes the effect's dependency facing
toggleFacing ==
    /\ mounted /\ open /\ ~effectDue
    /\ Len(requests) + 2 <= MaxStarts
    /\ LET next == IF facing = "user" THEN "environment" ELSE "user"
       IN /\ facing' = next
          /\ liveTracks' = stopStream_liveTracks
          /\ streamRef' = NoStream
          /\ startStream(next)
    /\ effectDue' = TRUE
    /\ UNCHANGED <<open, mounted, srcObject, capture, captured>>
    /\ UNCHANGED <<classifierVars, resultsVars, sampleVars>>

\* await getUserMedia resolves: streamRef.current = stream; with a <video>,
\* srcObject = stream and play() is awaited; without one, finally runs
GetUserMediaResolves ==
    /\ \E i \in PendingStarts :
          /\ streamRef' = i
          /\ liveTracks' = liveTracks \cup {i}
          /\ IF videoPresent
             THEN /\ srcObject' = i
                  /\ requests' = [requests EXCEPT ![i].state = "playing"]
                  /\ UNCHANGED starting
             ELSE /\ requests' = [requests EXCEPT ![i].state = "done"]
                  /\ starting' = setState(starting, FALSE)
                  /\ UNCHANGED srcObject
    /\ UNCHANGED <<open, mounted, facing, error, effectDue, capture, captured>>
    /\ UNCHANGED <<classifierVars, resultsVars, sampleVars>>

\* await videoRef.current.play().catch(() => {}) settles; finally setStarting(false)
PlaySettles ==
    /\ \E i \in DOMAIN requests :
          /\ requests[i].state = "playing"
          /\ requests' = [requests EXCEPT ![i].state = "done"]
    /\ starting' = setState(starting, FALSE)
    /\ UNCHANGED <<open, mounted, facing, error, streamRef, liveTracks, srcObject,
                   effectDue, capture, captured>>
    /\ UNCHANGED <<classifierVars, resultsVars, sampleVars>>

\* await getUserMedia rejects: catch setError(...), finally setStarting(false)
GetUserMediaRejects ==
    /\ \E i \in PendingStarts : \E name \in {"NotAllowedError", "NotFoundError"} :
          /\ requests' = [requests EXCEPT ![i].state = "failed", ![i].name = name]
          /\ error' = setState(error, startErrorMessage(name))
    /\ starting' = setState(starting, FALSE)
    /\ UNCHANGED <<open, mounted, facing, streamRef, liveTracks, srcObject,
                   effectDue, capture, captured>>
    /\ UNCHANGED <<classifierVars, resultsVars, sampleVars>>

\* <Button onClick={doCapture} disabled={!!error || starting}>
captureEnabled == ~(error # NoError \/ starting)

\* doCapture up to canvas.toBlob: the frame drawn is the video's current one
doCapture ==
    /\ mounted /\ open /\ ~effectDue
    /\ captureEnabled
    /\ Len(capture) + Len(captured) < MaxCaptures
    /\ capture' = Append(capture, [frame |-> srcObject, startsPending |-> PendingStarts # {}])
    /\ UNCHANGED <<open, mounted, facing, error, starting, streamRef, requests,
                   liveTracks, srcObject, effectDue, captured>>
    /\ UNCHANGED <<classifierVars, resultsVars, sampleVars>>

\* the toBlob callback: no blob, return; else onCapture(file), onOpenChange(false)
ToBlobCallback ==
    /\ capture # <<>>
    /\ capture' = Tail(capture)
    /\ \E blob \in {"jpeg", "null"} :
          IF blob = "null"
          THEN UNCHANGED <<open, srcObject, effectDue, captured>>
          ELSE /\ captured' = Append(captured, Head(capture))
               /\ IF mounted /\ open
                  THEN open' = FALSE /\ srcObject' = NoStream /\ effectDue' = TRUE
                  ELSE UNCHANGED <<open, srcObject, effectDue>>
    /\ UNCHANGED <<mounted, facing, error, starting, streamRef, requests, liveTracks>>
    /\ UNCHANGED <<classifierVars, resultsVars, sampleVars>>

\* the parent unmounts the component: the effect's cleanup runs
Unmount ==
    /\ mounted
    /\ mounted' = FALSE
    /\ liveTracks' = stopStream_liveTracks
    /\ streamRef' = NoStream
    /\ srcObject' = NoStream
    /\ effectDue' = FALSE
    /\ UNCHANGED <<open, facing, error, starting, requests, capture, captured>>
    /\ UNCHANGED <<classifierVars, resultsVars, sampleVars>>

----------------------------------------------------------------------------
(* Specifications *)

\* normalizeRisk on one input, then on its own result
InitNormalize == ClassifierInputs(RiskInputs, {Undefined}) /\ ResultsIdle /\ SampleIdle /\ CameraIdle
NextNormalize == CallNormalizeRisk \/ CallNormalizeRiskAgain
SpecNormalize == InitNormalize /\ [][NextNormalize]_vars

\* riskFromCombined on one sentence
InitCombined == ClassifierInputs(Sentences, {Undefined}) /\ ResultsIdle /\ SampleIdle /\ CameraIdle
NextCombined == CallRiskFromCombined
SpecCombined == InitCombined /\ [][NextCombined]_vars

\* summarizeSingle on one label and one explicit risk
InitSummarize == ClassifierInputs(Labels, ExplicitRisks) /\ ResultsIdle /\ SampleIdle /\ CameraIdle
NextSummarize == CallSummarizeSingle
SpecSummarize == InitSummarize /\ [][NextSummarize]_vars

\* hasWord on one haystack and one word
InitHasWord == ClassifierInputs(Haystacks, Words) /\ ResultsIdle /\ SampleIdle /\ CameraIdle
NextHasWord == CallHasWord
SpecHasWord == InitHasWord /\ [][NextHasWord]_vars

\* the results page
Init == ClassifierIdle /\ ResultsIdle /\ SampleIdle /\ CameraIdle
Next == OpenResults \/ NavigateHome
Spec == Init /\ [][Next]_vars

\* the sample picker
NextSample == ClickRow \/ ClickLoad \/ FetchSettles \/ BlobSettles \/ DecodeSettles
SpecSample == Init /\ [][NextSample]_vars

\* the camera modal
NextCamera ==
    \/ OpenModal \/ CloseModal \/ OpenCloseEffect \/ toggleFacing
    \/ GetUserMediaResolves \/ PlaySettles \/ GetUserMediaRejects
    \/ doCapture \/ ToBlobCallback \/ Unmount
SpecCamera == Init /\ [][NextCamera]_vars

\* the surrounding I/O: the picker and the camera modal share no state, so a
\* run uses one of the two
NextIO == (CameraIdle /\ NextSample) \/ (SampleIdle /\ NextCamera)
SpecIO == Init /\ [][NextIO]_vars


----------------------------------------------------------------------------
(* Properties *)

\* raw is the word w in any letter case, with white space around it only
SaysLevel(raw, w) ==
    /\ raw \notin {Undefined, Null}
    /\ \E i \in 0..Len(raw) :
          /\ i + Len(w) <= Len(raw)
          /\ \A k \in 1..i : IsSpace(raw[k])
          /\ \A k \in 1..Len(w) : LowerChar(raw[i + k]) = w[k]
          /\ \A k \in (i + Len(w) + 1)..Len(raw) : IsSpace(raw[k])

ExplicitLevels == {S_low, S_moderate, S_high}

\* w occurs in s at offset i, letter case ignored
OccursAt(s, w, i) ==
    /\ i + Len(w) <= Len(s)
    /\ \A k \in 1..Len(w) : LowerChar(s[i + k]) = LowerChar(w[k])

\* w occurs somewhere in s, letter case ignored
Occurs(s, w) == \E i \in 0..Len(s) : OccursAt(s, w, i)

\* w occurs in s at an occurrence with no word character right before or after
OccursAsToken(s, w) ==
    \E i \in 0..Len(s) :
        /\ OccursAt(s, w, i)
        /\ i = 0 \/ ~IsWordChar(s[i])
        /\ i + Len(w) = Len(s) \/ ~IsWordChar(s[i + Len(w) + 1])

OccursAny(s, phrases) == \E n \in DOMAIN phrases : Occurs(s, phrases[n])

\* C1: the report's overall risk is the normalized overall_risk when that is
\* low, moderate or high, whatever the combined sentence says, and
\* riskFromCombined(combined) exactly when overall_risk normalizes to unknown
C1_OverallRisk ==
    page.kind = "report" =>
        LET explicit == normalizeRisk(results.overall_risk)
        IN /\ explicit \in ExplicitLevels => page.overallRisk = explicit
           /\ explicit = S_unknown => page.overallRisk = riskFromCombined(results.combined)
           /\ \A w \in ExplicitLevels :
                 SaysLevel(results.overall_risk, w) => page.overallRisk = w
           /\ (\A w \in ExplicitLevels : ~SaysLevel(results.overall_risk, w))
                 => page.overallRisk = riskFromCombined(results.combined)

\* C1 witness: an explicit low beside a combined sentence that says high
C1_Witness ==
    /\ page.kind = "report"
    /\ results.overall_risk = S_low
    /\ results.combined = T_High_risk
    /\ page.overallRisk = S_low

\* C2: with an explicit risk of low, moderate or high, summarizeSingle answers
\* from the explicit risk alone: low is Normal, moderate and high are Review
\* Needed, whatever the label is (also with no label)
C2_ExplicitOverride ==
    (call.fn = "summarizeSingle" /\ call.b \in ExplicitLevels) =>
        /\ ~ret.threw
        /\ ret.val = IF call.b = S_low
                     THEN [status |-> "normal", text |-> "Normal"]
                     ELSE [status |-> "review", text |-> "Review Needed"]

\* C2 witness: an explicit low overrides the exact abnormal label, and an
\* explicit high the absent label
C2_Witness ==
    /\ call.fn = "summarizeSingle"
    /\ \/ call.a = S_unhealthy /\ call.b = S_low /\ ret.val.status = "normal"
       \/ call.a = Undefined /\ call.b = S_high /\ ret.val.text = "Review Needed"

\* C3: with no effective explicit risk, a label in which 'unhealthy' or
\* 'positive' occurs as a whole word is classified review, also when a
\* normal-vocabulary word occurs in it
C3_FailSafe ==
    (/\ call.fn = "summarizeSingle"
     /\ call.b \in {Undefined, S_unknown}
     /\ call.a # Undefined
     /\ OccursAsToken(call.a, S_unhealthy) \/ OccursAsToken(call.a, S_positive)) =>
        ~ret.threw /\ ret.val.status = "review"

\* C4: with no effective explicit risk summarizeSingle is total and decides
\* by the label: none gives No data; else, lowercased and trimmed, non_pcos
\* and non-pcos give Normal, unhealthy, pcos, positive and pcos_positive give
\* Review Needed, and any other label gives Normal exactly when a normal
\* word occurs in it as a whole word
C4_DecisionProcedure ==
    (call.fn = "summarizeSingle" /\ call.b \in {Undefined, S_unknown}) =>
        /\ ~ret.threw
        /\ IF call.a \in {Undefined, <<>>}
           THEN ret.val = [status |-> "review", text |-> "No data"]
           ELSE LET p == trim(toLowerCase(call.a))
                IN IF p \in {S_non_pcos, S_non_dash_pcos}
                   THEN ret.val = [status |-> "normal", text |-> "Normal"]
                   ELSE IF p \in {S_unhealthy, S_pcos, S_positive, S_pcos_positive}
                   THEN ret.val = [status |-> "review", text |-> "Review Needed"]
                   ELSE IF \E w \in {S_normal, S_healthy, S_no_symptoms, S_negative,
                                     S_non_dash_pcos, S_no_pcos} : OccursAsToken(p, w)
                   THEN ret.val = [status |-> "normal", text |-> "Normal"]
                   ELSE ret.val = [status |-> "review", text |-> "Review Needed"]

\* C4 witness: a label that is no exact token and holds a normal word only
\* next to a word character ("_negative ") falls through to Review Needed
C4_Witness ==
    /\ call.fn = "summarizeSingle"
    /\ call.b = Undefined
    /\ call.a = G_underscore \o S_negative \o G_space
    /\ ret.val = [status |-> "review", text |-> "Review Needed"]

\* C5: riskFromCombined answers low when a low phrase occurs in the sentence
\* (letter case ignored), else high when a high phrase occurs, else moderate
\* when a moderate phrase occurs, else unknown (also for the empty and the
\* absent sentence), and never throws
C5_PhraseOrder ==
    call.fn = "riskFromCombined" =>
        /\ ~ret.threw
        /\ ret.val =
             IF call.a = Undefined THEN S_unknown
             ELSE IF OccursAny(call.a, lowPhrases) THEN S_low
             ELSE IF OccursAny(call.a, highPhrases) THEN S_high
             ELSE IF OccursAny(call.a, midPhrases) THEN S_moderate
             ELSE S_unknown

\* C5 witness: a sentence with a high, a moderate and a low phrase, in that order
C5_Witness ==
    /\ call.fn = "riskFromCombined"
    /\ call.a = T_High_risk \o T_Moderate \o T_Low_risk
    /\ ret.val = S_low

\* C6: normalizeRisk returns low, moderate or high exactly when the input,
\* trimmed and lowercased, is that word, unknown for every other input
\* (null and undefined too), and returns its own result unchanged
C6_NormalizeRisk ==
    /\ call.fn \in {"normalizeRisk", "normalizeRisk2"} => ~ret.threw /\ ret.val \in RiskLevel
    /\ call.fn = "normalizeRisk" =>
          /\ \A w \in ExplicitLevels : ret.val = w <=> SaysLevel(call.a, w)
          /\ ret.val = S_unknown <=> \A w \in ExplicitLevels : ~SaysLevel(call.a, w)
    /\ call.fn = "normalizeRisk2" => ret.val = call.b

\* C6 witness: a padded, capitalised level went through normalizeRisk twice
C6_Witness ==
    /\ call.fn = "normalizeRisk2"
    /\ call.a = G_space \o R_Low \o G_tab
    /\ call.b = S_low
    /\ ret.val = S_low

\* C7: hasWord never throws and is true exactly when the word occurs in the
\* haystack, letter case ignored and literally, at an occurrence with no
\* word character right before or after it
C7_WholeToken ==
    call.fn = "hasWord" =>
        /\ ~ret.threw
        /\ ret.val <=> OccursAsToken(call.a, call.b)

\* C8: a modality's chip and card are both absent from the report when its
\* prediction is absent or empty, whatever the explicit risk, and both
\* present otherwise
C8_ModalityOmitted ==
    page.kind = "report" =>
        LET pred == [face |-> results.face_pred, xray |-> results.xray_pred]
        IN \A m \in {"face", "xray"} :
              IF pred[m] \in {Undefined, <<>>}
              THEN m \notin DOMAIN page.chips /\ m \notin DOMAIN page.cards
              ELSE m \in DOMAIN page.chips /\ m \in DOMAIN page.cards

\* C8 witness: no face prediction but an explicit face risk, the X-ray shown
C8_Witness ==
    /\ page.kind = "report"
    /\ results.face_pred = Undefined
    /\ results.face_risk = S_low
    /\ results.xray_pred = P_normal_study
    /\ DOMAIN page.chips = {"xray"}
    /\ DOMAIN page.cards = {"xray"}

\* C9: at most one sample load is outstanding at any time
C9_OneLoadOutstanding == Cardinality(PendingLoads) <= 1

\* C10: at most one camera start is outstanding at any time
C10_OneStartOutstanding == Cardinality(PendingStarts) <= 1

\* every camera start has settled: none awaits getUserMedia or play
AllStartsSettled == \A i \in DOMAIN requests : requests[i].state \in {"done", "failed"}

\* C11: once the modal is closed or unmounted, its effect has run and every
\* camera start has settled, no acquired stream has live tracks and streamRef
\* is null
C11_ClosedStopsStream ==
    ((~open \/ ~mounted) /\ ~effectDue /\ AllStartsSettled)
        => (liveTracks = {} /\ streamRef = NoStream)

\* C12: at most one acquired stream has live tracks, and it is the one held in
\* streamRef
C12_StreamOwned == Cardinality(liveTracks) <= 1 /\ liveTracks \subseteq {streamRef}

\* C14: while a camera start is pending starting is true and Capture is
\* disabled, and no capture is triggered or delivered while a start is pending
C14_NoCaptureWhileStarting ==
    mounted =>
        /\ (PendingStarts # {} => (starting /\ ~captureEnabled))
        /\ \A k \in DOMAIN capture : ~capture[k].startsPending
        /\ \A k \in DOMAIN captured : ~captured[k].startsPending

\* load i fails in this step
LoadFails(i) == Pending(loads[i]) /\ loads'[i].step = "failed"

\* load i succeeds in this step
LoadSucceeds(i) == Pending(loads[i]) /\ loads'[i].step = "loaded"

\* camera start i fails in this step
StartFails(i) == requests[i].state = "pending" /\ requests'[i].state = "failed"

\* camera start i completes in this step
StartSucceeds(i) == requests[i].state \in {"pending", "playing"} /\ requests'[i].state = "done"

C13_Step ==
    /\ \A i \in DOMAIN loads :
          /\ LoadFails(i) =>
                /\ delivered' = delivered
                /\ toasts' = Append(toasts, [kind |-> "error", load |-> i])
                /\ isLoading' = NotLoading
                /\ loads' = [loads EXCEPT ![i].step = "failed"]
          /\ LoadSucceeds(i) => isLoading' = NotLoading
    /\ \A i \in DOMAIN requests :
          /\ (StartFails(i) /\ mounted) =>
                /\ error' \in {PermissionDenied, Unavailable}
                /\ error' = PermissionDenied <=> requests'[i].name = "NotAllowedError"
                /\ starting' = FALSE
                /\ Len(requests') = Len(requests)
          /\ (StartSucceeds(i) /\ mounted) => starting' = FALSE

\* C13: a failed sample load delivers nothing, shows one error notification and
\* resets isLoading to null; a failed camera start sets error to a message (the
\* permission message exactly for NotAllowedError) and resets starting to
\* false; neither failure issues a new request, and both flags are reset on
\* success as well
C13_FailureHandling == [][C13_Step]_vars

\* a camera start was refused and reported with the permission message, and no
\* further start was issued
C13_Witness ==
    /\ mounted /\ open /\ ~effectDue
    /\ Len(requests) = 1
    /\ requests[1].state = "failed"
    /\ requests[1].name = "NotAllowedError"
    /\ error = PermissionDenied
    /\ ~starting

\* C15: a card's risk level is low exactly when the modality's summary status
\* is normal and moderate otherwise, never high or unknown; an explicit risk of
\* high and one of moderate both give the card the level moderate
C15_CardRiskLevel ==
    page.kind = "report" =>
        LET explicit == [face |-> results.face_risk, xray |-> results.xray_risk]
        IN \A m \in DOMAIN page.cards :
              /\ page.cards[m].riskLevel \in {S_low, S_moderate}
              /\ page.cards[m].riskLevel = S_low <=> page.chips[m].status = "normal"
              /\ (SaysLevel(explicit[m], S_high) \/ SaysLevel(explicit[m], S_moderate))
                    => page.cards[m].riskLevel = S_moderate

\* C15 witness: the face label reads normal but the explicit face risk is high,
\* so the face card gets moderate; the X-ray card of a normal study gets low
C15_Witness ==
    /\ page.kind = "report"
    /\ results.face_pred = S_non_pcos
    /\ results.face_risk = S_high
    /\ page.chips["face"].status = "review"
    /\ page.cards["face"].riskLevel = S_moderate
    /\ results.xray_pred = P_normal_study
    /\ results.xray_risk = Undefined
    /\ page.cards["xray"].riskLevel = S_low

====
